---- MODULE Spec2Model ----
(***************************************************************************)
(* Binary-spectrum delay estimator                                         *)
(* (trunk/modules/audio_processing/utility/delay_estimator.c).            *)
(*                                                                         *)
(* A uint32_t is the pair <<hi, lo>> of its 16-bit halves, because TLC    *)
(* integers are narrower than 2^32; all word arithmetic below is taken     *)
(* modulo 2^32 on that pair.  int32_t / int values of the estimator stay   *)
(* far below 2^31 and are plain integers.                                  *)
(***************************************************************************)
EXTENDS Integers, Sequences, FiniteSets, TLC

\* ------------------------------------------------------------------ bounds
MaxDelayArg == 2        \* largest max_delay passed to create
MaxLookaheadArg == 1    \* largest lookahead passed to create
MaxFrames == 3          \* process calls per init explored with arbitrary words
MaxLongFrames == 96     \* process calls per init on an alternating far end
RetunePeriod == 32      \* the echo path may change every RetunePeriod calls
MaxKnownFrames == 200   \* process calls per init on a pseudo-random far end
ConvergedBy == 160      \* calls after which a known delay must be reported
NumThreads == 2         \* threads calling CpuInfo::DetectNumberOfCores
MaxCpuCalls == 4        \* calls of CpuInfo::DetectNumberOfCores over all threads
MaxCores == 2           \* largest core count the platform query reports
MaxProbeMean == 32      \* largest mean_value / 512 given to WebRtc_MeanEstimatorFix
MaxProbeShift == 13     \* largest factor given to WebRtc_MeanEstimatorFix
MaxProbeQuot == 2       \* largest |diff| / 2^factor given to WebRtc_MeanEstimatorFix
MaxFarBits == 32        \* largest far_bit_counts value given to the shift formula
MaxProbeHalf == 16      \* 16-bit halves 0..MaxProbeHalf of the words given to BitCount

\* ------------------------------------------------------- program constants
kShiftsAtZero == 13
kShiftsLinearSlope == 3
kProbabilityOffset == 1024
kProbabilityLowerLimit == 8704
kProbabilityMinSpread == 2816
kInitMean == 10240            \* (20 << 9)
kInitProbability == 16384     \* (32 << 9)
kErrorDelay == 0 - 1           \* mutation: the error code as the initial delay
kNoDelay == 0 - 2             \* default return value, -2

\* --------------------------------------------------- 32-bit word arithmetic
Half == 65536

RECURSIVE Pow2(_)
Pow2(k) == IF k = 0 THEN 1 ELSE 2 * Pow2(k - 1)

RECURSIVE And16(_, _)
And16(a, b) ==
  IF a = 0 \/ b = 0 THEN 0
  ELSE (a % 2) * (b % 2) + 2 * And16(a \div 2, b \div 2)

RECURSIVE Xor16(_, _)
Xor16(a, b) ==
  IF a = 0 THEN b
  ELSE IF b = 0 THEN a
  ELSE ((a + b) % 2) + 2 * Xor16(a \div 2, b \div 2)

And32(a, b) == <<And16(a[1], b[1]), And16(a[2], b[2])>>

Xor32(a, b) == <<Xor16(a[1], b[1]), Xor16(a[2], b[2])>>

\* u >> k for 0 <= k < 32
Shr32(u, k) ==
  IF k >= 16 THEN <<0, u[1] \div Pow2(k - 16)>>
  ELSE <<u[1] \div Pow2(k),
         (u[2] \div Pow2(k)) + (u[1] % Pow2(k)) * Pow2(16 - k)>>

\* a + b modulo 2^32
Add32(a, b) ==
  LET lo == a[2] + b[2]
      hi == a[1] + b[1] + (lo \div Half)
  IN <<hi % Half, lo % Half>>

\* a - b modulo 2^32
Sub32(a, b) ==
  LET lo == a[2] - b[2]
      borrow == IF lo < 0 THEN 1 ELSE 0
      hi == a[1] - b[1] - borrow
  IN <<(hi + Half) % Half, (lo + Half) % Half>>

Mask3 == <<56173, 46811>>     \* 033333333333
Mask1 == <<18724, 37449>>     \* 011111111111
Mask7 == <<50972, 29127>>     \* 030707070707
Mask77 == <<0, 63>>           \* 077

\* mutation: the bits folded down from position 24 upwards are not added
BitCountNoTopFold(u32) ==
  LET t1 == Sub32(Sub32(u32, And32(Shr32(u32, 1), Mask3)),
                  And32(Shr32(u32, 2), Mask1))
      t2 == And32(Add32(t1, Shr32(t1, 3)), Mask7)
      t3 == Add32(t2, Shr32(t2, 6))
      t4 == And32(Add32(t3, Shr32(t3, 12)), Mask77)
  IN t4[2]

\* mutation: the final mask keeps five bits instead of six
BitCountNarrow(u32) ==
  LET t1 == Sub32(Sub32(u32, And32(Shr32(u32, 1), Mask3)),
                  And32(Shr32(u32, 2), Mask1))
      t2 == And32(Add32(t1, Shr32(t1, 3)), Mask7)
      t3 == Add32(t2, Shr32(t2, 6))
      t4 == And32(Add32(Add32(t3, Shr32(t3, 12)), Shr32(t3, 24)), <<0, 31>>)
  IN t4[2]

BitCount(u32) ==
  LET t1 == Sub32(Sub32(u32, And32(Shr32(u32, 1), Mask3)),
                  And32(Shr32(u32, 2), Mask1))
      t2 == And32(Add32(t1, Shr32(t1, 3)), Mask7)
      t3 == Add32(t2, Shr32(t2, 6))
      t4 == And32(Add32(Add32(t3, Shr32(t3, 12)), Shr32(t3, 24)), Mask77)
  IN t4[2]

BitCountComparison(binary_vector, binary_matrix, matrix_size) ==
  [n \in 0..(matrix_size - 1) |-> BitCount(Xor32(binary_vector, binary_matrix[n]))]

\* ------------------------------------------------------------------- state
VARIABLES
  handle,                  \* the caller's BinaryDelayEstimator*: "NULL" or "self"
  heap,                    \* blocks obtained from malloc and not yet released
  initialized,             \* WebRtc_InitBinaryDelayEstimator ran on this instance
  history_size,
  near_history_size,
  mean_bit_counts,
  bit_counts,
  binary_far_history,
  binary_near_history,
  far_bit_counts,
  minimum_probability,
  last_delay_probability,
  last_delay,
  op,                      \* the call that produced this state
  ret,                     \* value returned by the last process call
  binary_near_spectrum,    \* near-end word compared in the last process call
  value_best_candidate,    \* locals of the last process call
  value_worst_candidate,
  candidate_delay,
  entry_delay,             \* last_delay on entry to the last process call
  create_args,             \* arguments and malloc outcomes of the last create
  calls,                   \* process calls since the last init
  near_in,                 \* near-end words an arbitrary caller passed since init
  far_in,                  \* far-end words an arbitrary caller passed since init
  fault,                   \* "none", or the outcome of touching released memory
  echo,                    \* caller's echo path: <<pattern, delay, switches left>>
  probe,                   \* arguments and result of one helper-routine call
  cpu                      \* CpuInfo: the static, the threads, the queries made

fields == <<history_size, near_history_size, mean_bit_counts, bit_counts,
            binary_far_history, binary_near_history, far_bit_counts,
            minimum_probability, last_delay_probability, last_delay>>

locals == <<ret, binary_near_spectrum, value_best_candidate,
            value_worst_candidate, candidate_delay, entry_delay>>

vars == <<handle, heap, initialized, fields, op, locals, create_args, calls,
          near_in, far_in, fault, echo, probe, cpu>>

\* state outside the estimator instance and its caller
aside == <<probe, cpu>>

Zero32 == <<0, 0>>
Ones32 == <<65535, 65535>>

\* far-end / near-end words offered to process when inputs are arbitrary
Words == {Zero32, Ones32, <<57005, 48879>>}

Buffers == {"mean_bit_counts", "bit_counts", "binary_far_history",
            "binary_near_history", "far_bit_counts"}

AllocSites == Buffers \cup {"self"}

Live == handle = "self" /\ "self" \in heap

\* ----------------------------------------------------------- construction
\* mutation: far_bit_counts is never released
FreeReleasedLeak ==
  {"mean_bit_counts", "bit_counts", "binary_far_history",
   "binary_near_history", "self"}

\* blocks passed to free() by WebRtc_FreeBinaryDelayEstimator(handle), handle # NULL
FreeReleased ==
  {"mean_bit_counts", "bit_counts", "binary_far_history",
   "binary_near_history", "far_bit_counts", "self"}

\* mutation: a history of one frame is accepted
SanityConditionsWeak(max_delay, lookahead) ==
  (max_delay >= 0) /\ (lookahead >= 0) /\ (max_delay + lookahead >= 1)

SanityConditions(max_delay, lookahead) ==
  (max_delay >= 0) /\ (lookahead >= 0) /\ (max_delay + lookahead > 1)

\* No instance: the fields do not exist.
NoFields ==
  /\ history_size' = 0
  /\ near_history_size' = 0
  /\ mean_bit_counts' = <<>>
  /\ bit_counts' = <<>>
  /\ binary_far_history' = <<>>
  /\ binary_near_history' = <<>>
  /\ far_bit_counts' = <<>>
  /\ minimum_probability' = 0
  /\ last_delay_probability' = 0
  /\ last_delay' = 0

NoLocals ==
  /\ ret' = 0
  /\ binary_near_spectrum' = Zero32
  /\ value_best_candidate' = 0
  /\ value_worst_candidate' = 0
  /\ candidate_delay' = 0
  /\ entry_delay' = 0

\* ok[s]: whether the malloc at allocation site s succeeds.
\* g: the contents malloc leaves in the blocks (never initialized by create).
CreateBinaryDelayEstimator(max_delay, lookahead, ok, g) ==
  LET hs == max_delay + lookahead
      self_ok == SanityConditions(max_delay, lookahead) /\ ok["self"]
      allocated == {"self"} \cup {b \in Buffers : ok[b]}
      malloc_fail == \E b \in Buffers : ~ok[b]
  IN /\ fault = "none"
     /\ heap = {}
     /\ op \in {"none", "free"}     \* the caller holds no instance
     /\ op' = "create"
     /\ initialized' = FALSE
     /\ calls' = 0
     /\ near_in' = <<>>
     /\ far_in' = <<>>
     /\ NoLocals
     /\ create_args' = [max_delay |-> max_delay, lookahead |-> lookahead, ok |-> ok]
     /\ UNCHANGED fault
     /\ IF self_ok /\ ~malloc_fail
        THEN /\ handle' = "self"
             /\ heap' = allocated
             /\ history_size' = hs
             /\ near_history_size' = lookahead + 1
             /\ mean_bit_counts' = [i \in 0..(hs - 1) |-> g]
             /\ bit_counts' = [i \in 0..(hs - 1) |-> g]
             /\ binary_far_history' = [i \in 0..(hs - 1) |-> <<g, g>>]
             /\ binary_near_history' = [i \in 0..lookahead |-> <<g, g>>]
             /\ far_bit_counts' = [i \in 0..(hs - 1) |-> g]
             /\ minimum_probability' = g
             /\ last_delay_probability' = g
             /\ last_delay' = g
        ELSE /\ handle' = "NULL"
             /\ heap' = IF self_ok THEN allocated \ FreeReleased ELSE {}
             /\ NoFields

CreateAny ==
  \E max_delay \in (0 - 1)..MaxDelayArg, lookahead \in (0 - 1)..MaxLookaheadArg,
     ok \in [AllocSites -> BOOLEAN], g \in {0, 21845} :
    CreateBinaryDelayEstimator(max_delay, lookahead, ok, g)

\* ------------------------------------------------------------- destruction
FreeNull ==
  /\ fault = "none"
  /\ handle = "NULL"
  /\ op' = "free"
  /\ create_args' = <<>>
  /\ UNCHANGED <<handle, heap, initialized, fields, locals, calls, near_in,
                 far_in, fault, echo, aside>>

FreeLive ==
  /\ fault = "none"
  /\ Live
  /\ op' = "free"
  /\ heap' = heap \ FreeReleased
  /\ initialized' = FALSE
  /\ calls' = 0
  /\ near_in' = <<>>
  /\ far_in' = <<>>
  /\ NoFields
  /\ NoLocals
  /\ create_args' = <<>>
  /\ UNCHANGED <<handle, fault, echo, aside>>

\* handle still holds the address of a released instance: free(handle->...)
\* reads released memory and releases blocks again; the outcome is undefined.
FreeDangling ==
  /\ fault = "none"
  /\ handle = "self"
  /\ "self" \notin heap
  /\ op' = "free"
  /\ fault' \in {"abort", "silent"}
  /\ UNCHANGED <<handle, heap, initialized, fields, locals, create_args, calls,
                 near_in, far_in, echo, aside>>

\* ---------------------------------------------------------- initialization
\* mutation: the near-end history is not cleared
InitKeepsNearHistory ==
  /\ bit_counts' = [i \in 0..(history_size - 1) |-> 0]
  /\ binary_far_history' = [i \in 0..(history_size - 1) |-> Zero32]
  /\ far_bit_counts' = [i \in 0..(history_size - 1) |-> 0]
  /\ mean_bit_counts' = [i \in 0..(history_size - 1) |-> kInitMean]
  /\ minimum_probability' = kInitProbability
  /\ last_delay_probability' = kInitProbability
  /\ last_delay' = kNoDelay
  /\ UNCHANGED <<history_size, near_history_size, binary_near_history>>

InitBinaryDelayEstimator ==
  /\ bit_counts' = [i \in 0..(history_size - 1) |-> 0]
  /\ binary_far_history' = [i \in 0..(history_size - 1) |-> Zero32]
  /\ binary_near_history' = [i \in 0..(near_history_size - 1) |-> Zero32]
  /\ far_bit_counts' = [i \in 0..(history_size - 1) |-> 0]
  /\ mean_bit_counts' = [i \in 0..(history_size - 1) |-> kInitMean]
  /\ minimum_probability' = kInitProbability
  /\ last_delay_probability' = kInitProbability
  /\ last_delay' = kNoDelay
  /\ UNCHANGED <<history_size, near_history_size>>

InitCall ==
  /\ fault = "none"
  /\ Live
  /\ InitBinaryDelayEstimator
  /\ op' = "init"
  /\ initialized' = TRUE
  /\ calls' = 0
  /\ near_in' = <<>>
  /\ far_in' = <<>>
  /\ UNCHANGED <<handle, heap, locals, create_args, fault>>

binary_last_delay == last_delay

\* ----------------------------------------------------------------- process
\* mutation: the memmove is missing, only slot 0 is replaced
ShiftInsertNoMove(buf, size, v) ==
  [i \in 0..(size - 1) |-> IF i = 0 THEN v ELSE buf[i]]

\* memmove(&buf[1], &buf[0], (size - 1) * sizeof(buf[0])); buf[0] = v;
ShiftInsert(buf, size, v) ==
  [i \in 0..(size - 1) |-> IF i = 0 THEN v ELSE buf[i - 1]]

\* mutation: the difference is added without the right shift
MeanEstimatorFixNoShift(new_value, factor, mean_value) == new_value

\* mutation: the commented-out one-liner, an arithmetic shift of the signed difference
MeanEstimatorFixArithmetic(new_value, factor, mean_value) ==
  mean_value + ((new_value - mean_value) \div Pow2(factor))

MeanEstimatorFix(new_value, factor, mean_value) ==
  LET diff == new_value - mean_value
      step == IF diff < 0
              THEN 0 - ((0 - diff) \div Pow2(factor))
              ELSE diff \div Pow2(factor)
  IN mean_value + step

\* mutation: a slope of 4 instead of 3
ShiftsSteep(far_bits) == kShiftsAtZero - ((4 * far_bits) \div 16)

\* mutation: the slope term is dropped
ShiftsFlat(far_bits) == kShiftsAtZero

Shifts(far_bits) == kShiftsAtZero - ((kShiftsLinearSlope * far_bits) \div 16)

\* mutation: the guard is >= 0 instead of > 0
UpdateMeanGuardGe(mean, counts, far_bits, i) ==
  IF far_bits[i] >= 0
  THEN MeanEstimatorFix(counts[i] * 512, kShiftsAtZero - ((kShiftsLinearSlope * far_bits[i]) \div 16),
                        mean[i])
  ELSE mean[i]

\* mutation: the mean is smoothed whatever the far-end bit count
UpdateMeanAlways(mean, counts, far_bits, i) ==
  MeanEstimatorFix(counts[i] * 512, kShiftsAtZero - ((kShiftsLinearSlope * far_bits[i]) \div 16),
                   mean[i])

\* one iteration of the smoothing loop, for index i
UpdateMean(mean, counts, far_bits, i) ==
  IF far_bits[i] > 0
  THEN MeanEstimatorFix(counts[i] * 512, Shifts(far_bits[i]), mean[i])
  ELSE mean[i]

\* mutation: the minimum is compared with <=, so the last index wins a tie
RECURSIVE ScanCandidatesLastWins(_, _, _, _)
ScanCandidatesLastWins(mean, size, i, acc) ==
  IF i >= size THEN acc
  ELSE LET better == mean[i] <= acc.best
           worse == mean[i] > acc.worst
       IN ScanCandidatesLastWins(mean, size, i + 1,
            [best |-> IF better THEN mean[i] ELSE acc.best,
             delay |-> IF better THEN i ELSE acc.delay,
             worst |-> IF worse THEN mean[i] ELSE acc.worst])

\* the candidate scan, iterations i .. size-1, from the running values in acc
RECURSIVE ScanCandidates(_, _, _, _)
ScanCandidates(mean, size, i, acc) ==
  IF i >= size THEN acc
  ELSE LET better == mean[i] < acc.best
           worse == mean[i] > acc.worst
       IN ScanCandidates(mean, size, i + 1,
            [best |-> IF better THEN mean[i] ELSE acc.best,
             delay |-> IF better THEN i ELSE acc.delay,
             worst |-> IF worse THEN mean[i] ELSE acc.worst])

\* mutation: the spread is compared with the offset instead of the minimum spread
NewMinimumProbabilityAnySpread(old, best, worst) ==
  IF (old > kProbabilityLowerLimit) /\ (worst - best > kProbabilityOffset)
  THEN LET t == best + kProbabilityOffset
           threshold == IF t < kProbabilityLowerLimit THEN kProbabilityLowerLimit ELSE t
       IN IF old > threshold THEN threshold ELSE old
  ELSE old

\* mutation: the threshold is not clamped to the lower limit
NewMinimumProbabilityNoClamp(old, best, worst) ==
  IF (old > kProbabilityLowerLimit) /\ (worst - best > kProbabilityMinSpread)
  THEN IF old > best + kProbabilityOffset THEN best + kProbabilityOffset ELSE old
  ELSE old

\* the update of minimum_probability
NewMinimumProbability(old, best, worst) ==
  IF (old > kProbabilityLowerLimit) /\ (worst - best > kProbabilityMinSpread)
  THEN LET t == best + kProbabilityOffset
           threshold == IF t < kProbabilityLowerLimit THEN kProbabilityLowerLimit ELSE t
       IN IF old > threshold THEN threshold ELSE old
  ELSE old

\* mutation: any valley counts as reliable
ReliableNoOffset(best, worst) == worst > best

Reliable(best, worst) == worst > best + kProbabilityOffset

\* mutation: the newest near-end word is compared
ComparedWordNewest(near_hist, size, near_word) == near_word

\* the near-end word that is compared with the far-end history
ComparedWord(near_hist, size, near_word) ==
  IF size > 1 THEN near_hist[size - 1] ELSE near_word

\* whether the final decision replaces last_delay by the candidate
BelowMinimum(best, worst, min_prob) == Reliable(best, worst) /\ best < min_prob

\* mutation: last_delay_probability is re-anchored on every reliable frame
BelowLastAlways(best, worst, incremented) == Reliable(best, worst)

BelowLast(best, worst, incremented) == Reliable(best, worst) /\ best < incremented

ProcessBinarySpectrum(binary_far_spectrum, near_word) ==
  /\ binary_far_history' =
       ShiftInsert(binary_far_history, history_size, binary_far_spectrum)
  /\ far_bit_counts' =
       ShiftInsert(far_bit_counts, history_size, BitCount(binary_far_spectrum))
  /\ binary_near_history' =
       IF near_history_size > 1
       THEN ShiftInsert(binary_near_history, near_history_size, near_word)
       ELSE binary_near_history
  /\ binary_near_spectrum' =
       ComparedWord(binary_near_history', near_history_size, near_word)
  /\ bit_counts' =
       BitCountComparison(binary_near_spectrum', binary_far_history', history_size)
  /\ mean_bit_counts' =
       [i \in 0..(history_size - 1) |->
          UpdateMean(mean_bit_counts, bit_counts', far_bit_counts', i)]
  /\ LET scan == ScanCandidates(mean_bit_counts', history_size, 0,
                   [best |-> 16384, delay |-> 0 - 1, worst |-> 0])
     IN /\ value_best_candidate' = scan.best
        /\ value_worst_candidate' = scan.worst
        /\ candidate_delay' = scan.delay
  /\ minimum_probability' =
       NewMinimumProbability(minimum_probability, value_best_candidate',
                             value_worst_candidate')
  /\ last_delay_probability' =
       IF BelowLast(value_best_candidate', value_worst_candidate',
                    last_delay_probability + 1)
       THEN value_best_candidate'
       ELSE last_delay_probability + 1
  /\ last_delay' =
       IF \/ BelowMinimum(value_best_candidate', value_worst_candidate',
                          minimum_probability')
          \/ BelowLast(value_best_candidate', value_worst_candidate',
                       last_delay_probability + 1)
       THEN candidate_delay'
       ELSE last_delay
  /\ ret' = last_delay'
  /\ entry_delay' = last_delay
  /\ UNCHANGED <<history_size, near_history_size>>

ProcessCall(far, near) ==
  /\ fault = "none"
  /\ Live
  /\ initialized
  /\ ProcessBinarySpectrum(far, near)
  /\ op' = "process"
  /\ calls' = calls + 1
  /\ UNCHANGED <<handle, heap, initialized, create_args, fault>>

\* ------------------------------------------------------------- the callers
\* A caller that passes arbitrary words.
Create == CreateAny /\ UNCHANGED <<echo, aside>>

Reinit == InitCall /\ UNCHANGED <<echo, aside>>

Process ==
  /\ calls < MaxFrames
  /\ \E far \in Words, near \in Words :
       /\ ProcessCall(far, near)
       /\ near_in' = Append(near_in, near)
       /\ far_in' = Append(far_in, far)
  /\ UNCHANGED <<echo, aside>>

\* A caller on an echo path: the near-end word of a frame is the far-end word
\* of echo.d frames earlier (the zero word before the first frame).  The far
\* end either alternates between two words (gen = "alt") or is a sequence of
\* distinct non-zero pseudo-random words (gen = "prng", seed echo.a).
FarWord(e, t) ==
  IF e.gen = "alt"
  THEN (IF t % 2 = 0 THEN e.a ELSE e.b)
  ELSE <<((t + 1) * 40503 + e.a) % Half, ((t + 1) * 25173 + 13849) % Half>>

NearWord(e, far) == IF e.d = 0 THEN far ELSE binary_far_history[e.d - 1]

EchoProcess(limit) ==
  /\ calls < limit
  /\ ProcessCall(FarWord(echo, calls), NearWord(echo, FarWord(echo, calls)))
  /\ UNCHANGED <<echo, near_in, far_in, aside>>

InitAlternating ==
  /\ (op = "create" \/ calls % RetunePeriod = 0)
  /\ InitCall
  /\ \E a \in Words, b \in Words, d \in 0..(history_size - 1) :
       echo' = [gen |-> "alt", a |-> a, b |-> b, d |-> d]
  /\ UNCHANGED aside

InitPseudoRandom ==
  /\ op = "create"
  /\ InitCall
  /\ \E seed \in {0, 1, 12345}, d \in 0..history_size :
       echo' = [gen |-> "prng", a |-> seed, b |-> 0, d |-> d]
  /\ UNCHANGED aside

\* the echo path changes (only every RetunePeriod frames)
Retune ==
  /\ fault = "none"
  /\ Live
  /\ initialized
  /\ calls > 0
  /\ calls < MaxLongFrames
  /\ calls % RetunePeriod = 0
  /\ \E d \in 0..(history_size - 1) :
       /\ d # echo.d
       /\ echo' = [echo EXCEPT !.d = d]
  /\ UNCHANGED <<handle, heap, initialized, fields, op, locals, create_args,
                 calls, near_in, far_in, fault, aside>>

ProcessAlternating == EchoProcess(MaxLongFrames)

ProcessPseudoRandom == EchoProcess(MaxKnownFrames)

\* ------------------------------------------------- direct calls of helpers
\* no helper is being called directly
NoProbe == [fn |-> "none", x |-> 0, y |-> 0, z |-> 0, out |-> 0, out2 |-> 0]

\* everything but the record of a direct call
estimator == <<handle, heap, initialized, fields, op, locals, create_args, calls,
               near_in, far_in, fault, echo, cpu>>

\* arguments of WebRtc_MeanEstimatorFix: mean_value x, factor y and the
\* difference z = new_value - mean_value, around the multiples of 2^factor
MeanEstimatorArgs ==
  {[fn |-> "mean_in", x |-> k * 512 + o, y |-> f,
    z |-> sg * (q * Pow2(f) + (IF r = 2 THEN Pow2(f) - 1 ELSE r)),
    out |-> 0, out2 |-> 0] :
     k \in 0..MaxProbeMean, o \in {0, 1, 511}, f \in 0..MaxProbeShift,
     sg \in {0 - 1, 1}, q \in 0..MaxProbeQuot, r \in {0, 1, 2}}

\* values of far_bit_counts[i] that reach the shift formula (line 198: > 0)
ShiftsArgs ==
  {[fn |-> "shifts_in", x |-> f, y |-> 0, z |-> 0, out |-> 0, out2 |-> 0] :
     f \in 1..MaxFarBits}

\* 16-bit halves: small values, single bits, nibble patterns, and the
\* complements of all of these
ProbeHalves ==
  LET base == (0..MaxProbeHalf) \cup {Pow2(k) : k \in 0..15}
                \cup {4369 * n : n \in 0..15} \cup {57005, 48879, 18724, 37449}
  IN base \cup {65535 - h : h \in base}

BitCountArgs ==
  {[fn |-> "bitcount_in", x |-> <<h, l>>, y |-> 0, z |-> 0, out |-> 0, out2 |-> 0] :
     h \in ProbeHalves, l \in ProbeHalves}

\* WebRtc_MeanEstimatorFix(x + z, y, &mean) with mean = x, and with the
\* difference mirrored
CallMeanEstimatorFix ==
  /\ probe.fn = "mean_in"
  /\ probe' = [probe EXCEPT !.fn = "mean",
                            !.out = MeanEstimatorFix(probe.x + probe.z, probe.y, probe.x),
                            !.out2 = MeanEstimatorFix(probe.x - probe.z, probe.y, probe.x)]
  /\ UNCHANGED estimator

\* the shift of line 201-202 for far_bit_counts[i] = x and for the next count
CallShifts ==
  /\ probe.fn = "shifts_in"
  /\ probe' = [probe EXCEPT !.fn = "shifts",
                            !.out = Shifts(probe.x),
                            !.out2 = Shifts(IF probe.x < MaxFarBits THEN probe.x + 1
                                            ELSE probe.x)]
  /\ UNCHANGED estimator

\* BitCount(x)
CallBitCount ==
  /\ probe.fn = "bitcount_in"
  /\ probe' = [probe EXCEPT !.fn = "bitcount", !.out = BitCount(probe.x)]
  /\ UNCHANGED estimator

\* ------------------------------------------------------------------ CpuInfo
\* WebRtc_UWord32 CpuInfo::_numberOfCores = 0; no thread is inside the call
CpuStart ==
  [numberOfCores |-> 0,
   pc |-> [t \in 1..NumThreads |-> "idle"],
   queried |-> [t \in 1..NumThreads |-> 0],
   begun |-> 0,
   returned |-> <<>>,
   queries |-> 0]

\* everything but the CpuInfo state
nocpu == <<handle, heap, initialized, fields, op, locals, create_args, calls,
           near_in, far_in, fault, echo, probe>>

\* thread t enters CpuInfo::DetectNumberOfCores()
CpuCall(t) ==
  /\ cpu.pc[t] = "idle"
  /\ cpu.begun < MaxCpuCalls
  /\ cpu' = [cpu EXCEPT !.pc[t] = "test", !.begun = @ + 1]
  /\ UNCHANGED nocpu

\* if (!_numberOfCores): an unsynchronised read of the static
CpuTest(t) ==
  /\ cpu.pc[t] = "test"
  /\ cpu' = [cpu EXCEPT !.pc[t] = IF cpu.numberOfCores = 0 THEN "query" ELSE "return"]
  /\ UNCHANGED nocpu

\* the platform query (GetSystemInfo / get_nprocs / sysctl) runs and reports
\* the cores available at that moment
CpuQuery(t) ==
  /\ cpu.pc[t] = "query"
  /\ \E n \in 1..MaxCores :
       cpu' = [cpu EXCEPT !.pc[t] = "store", !.queried[t] = n, !.queries = @ + 1]
  /\ UNCHANGED nocpu

\* _numberOfCores = <result>: an unsynchronised write of the static
CpuStore(t) ==
  /\ cpu.pc[t] = "store"
  /\ cpu' = [cpu EXCEPT !.pc[t] = "return", !.numberOfCores = cpu.queried[t]]
  /\ UNCHANGED nocpu

\* return _numberOfCores: the static is read again; in a racing call the
\* build may also return the value this thread has just stored
CpuReturn(t) ==
  /\ cpu.pc[t] = "return"
  /\ \E v \in {cpu.numberOfCores} \cup
               (IF cpu.queried[t] # 0 THEN {cpu.queried[t]} ELSE {}) :
       cpu' = [cpu EXCEPT !.pc[t] = "idle", !.queried[t] = 0,
                          !.returned = Append(@, v)]
  /\ UNCHANGED nocpu

\* ----------------------------------------------------------- specification
Idle ==
  /\ handle = "NULL"
  /\ heap = {}
  /\ initialized = FALSE
  /\ history_size = 0
  /\ near_history_size = 0
  /\ mean_bit_counts = <<>>
  /\ bit_counts = <<>>
  /\ binary_far_history = <<>>
  /\ binary_near_history = <<>>
  /\ far_bit_counts = <<>>
  /\ minimum_probability = 0
  /\ last_delay_probability = 0
  /\ last_delay = 0
  /\ op = "none"
  /\ ret = 0
  /\ binary_near_spectrum = Zero32
  /\ value_best_candidate = 0
  /\ value_worst_candidate = 0
  /\ candidate_delay = 0
  /\ entry_delay = 0
  /\ create_args = <<>>
  /\ calls = 0
  /\ near_in = <<>>
  /\ far_in = <<>>
  /\ fault = "none"
  /\ echo = <<>>
  /\ cpu = CpuStart

Init == Idle /\ probe = NoProbe

Next ==
  \/ Create
  \/ Reinit
  \/ Process
  \/ FreeNull
  \/ FreeLive
  \/ FreeDangling

Spec == Init /\ [][Next]_vars

\* the helpers called directly on drawn arguments, next to the estimator
\* driven with arbitrary words
InitPure ==
  /\ Idle
  /\ probe \in {NoProbe} \cup MeanEstimatorArgs \cup ShiftsArgs \cup BitCountArgs

NextPure ==
  \/ CallMeanEstimatorFix
  \/ CallShifts
  \/ CallBitCount
  \/ (probe = NoProbe /\ Create)
  \/ (probe = NoProbe /\ Reinit)
  \/ (probe = NoProbe /\ Process)
  \/ (probe = NoProbe /\ FreeLive)

SpecPure == InitPure /\ [][NextPure]_vars

\* threads calling CpuInfo::DetectNumberOfCores, interleaved at its accesses
\* to the static
NextCpu ==
  \/ \E t \in 1..NumThreads : CpuCall(t)
  \/ \E t \in 1..NumThreads : CpuTest(t)
  \/ \E t \in 1..NumThreads : CpuQuery(t)
  \/ \E t \in 1..NumThreads : CpuStore(t)
  \/ \E t \in 1..NumThreads : CpuReturn(t)

SpecCpu == Init /\ [][NextCpu]_vars

\* long runs on an alternating far end with a changing echo path
NextLong ==
  \/ Create
  \/ FreeNull
  \/ InitAlternating
  \/ ProcessAlternating
  \/ Retune

SpecLong == Init /\ [][NextLong]_vars

\* long runs on a pseudo-random far end with a fixed echo path
NextKnown ==
  \/ Create
  \/ FreeNull
  \/ InitPseudoRandom
  \/ ProcessPseudoRandom

SpecKnown == Init /\ [][NextKnown]_vars

\* ------------------------------------------------------------ properties
\* a step that is one process call
ProcessStep == op' = "process" /\ calls' = calls + 1

Ready == Live /\ initialized /\ fault = "none"

Indices == 0..(history_size - 1)

\* C1: every process call returns -2 or an index in [0, history_size), never
\* -1 or anything else, and once a call since the last init has returned an
\* index, no later call returns -2 until init is called again.
C1_ReturnRange ==
  /\ [](op = "process" => (ret = 0 - 2 \/ ret \in Indices))
  /\ [][(op = "process" /\ ret >= 0 /\ ProcessStep) => ret' >= 0]_vars

\* a call made after an earlier call had already set last_delay
C1_Witness == op = "process" /\ entry_delay >= 0 /\ ret >= 0

\* C2 as stated: on a far end of distinct non-zero words whose echo arrives d
\* frames later, 0 <= d < history_size, process ends up returning d.
C2_ReportsD ==
  (op = "process" /\ echo.gen = "prng" /\ echo.d < history_size
     /\ calls >= ConvergedBy) => ret = echo.d

\* C2 amended: the reported delay is offset by the lookahead; for every d
\* with d + lookahead < history_size process returns d + lookahead from
\* ConvergedBy calls on, in every later frame of the pattern.
C2_ReportsDPlusLookahead ==
  (op = "process" /\ echo.gen = "prng"
     /\ echo.d + (near_history_size - 1) < history_size
     /\ calls >= ConvergedBy) => ret = echo.d + (near_history_size - 1)

\* a run with lookahead that has converged to d + lookahead and stayed there
C2_Witness ==
  /\ op = "process" /\ echo.gen = "prng"
  /\ near_history_size > 1
  /\ calls = MaxKnownFrames
  /\ entry_delay = echo.d + (near_history_size - 1)
  /\ ret = echo.d + (near_history_size - 1)

\* C3: init always produces the same state: zeroed bit_counts, histories and
\* far_bit_counts, every mean at 20*512, both probabilities at 32*512,
\* last_delay = -2 (also through the accessor), sizes unchanged.
C3_InitResets ==
  [][op' = "init" =>
       /\ history_size' = history_size
       /\ near_history_size' = near_history_size
       /\ bit_counts' = [i \in Indices |-> 0]
       /\ binary_far_history' = [i \in Indices |-> <<0, 0>>]
       /\ binary_near_history' = [i \in 0..(near_history_size - 1) |-> <<0, 0>>]
       /\ far_bit_counts' = [i \in Indices |-> 0]
       /\ mean_bit_counts' = [i \in Indices |-> 20 * 512]
       /\ minimum_probability' = 32 * 512
       /\ last_delay_probability' = 32 * 512
       /\ last_delay' = 0 - 2
       /\ binary_last_delay' = 0 - 2]_vars

\* init of an instance that has processed frames before
C3_Witness == op = "init" /\ value_worst_candidate > 0 /\ last_delay = 0 - 2

\* C4: minimum_probability never increases from one process call to the next
\* and stays within [17*512, 32*512].
C4_MonotonicFloor ==
  /\ [](Ready => (17 * 512 <= minimum_probability /\ minimum_probability <= 32 * 512))
  /\ [][ProcessStep => minimum_probability' <= minimum_probability]_vars

\* the floor has been lowered all the way and process was called again
C4_Witness ==
  /\ op = "process"
  /\ minimum_probability = 17 * 512
  /\ value_best_candidate + 2 * 512 < 17 * 512

\* C5: a process call leaves mean_bit_counts[i] unchanged at every index whose
\* far-end history slot holds the zero word after the shift.
C5_ZeroFarSkip ==
  [][ProcessStep =>
       \A i \in Indices :
         binary_far_history'[i] = <<0, 0>> =>
           (far_bit_counts'[i] = 0 /\ mean_bit_counts'[i] = mean_bit_counts[i])]_vars

\* a call where a zero slot saw a non-zero near-end word while another slot moved
C5_Witness ==
  /\ op = "process"
  /\ \E i \in Indices : binary_far_history[i] = <<0, 0>> /\ bit_counts[i] > 0
  /\ \E j \in Indices : binary_far_history[j] # <<0, 0>> /\ mean_bit_counts[j] # 20 * 512

\* C6: the word compared with the far-end history is the near-end word passed
\* lookahead calls earlier, the zero word during the first lookahead calls.
C6_ComparedWord ==
  op = "process" =>
    binary_near_spectrum =
      (IF calls > near_history_size - 1
       THEN near_in[calls - (near_history_size - 1)]
       ELSE <<0, 0>>)

\* a call with lookahead whose own near-end word differs from the compared one
C6_Witness ==
  /\ op = "process"
  /\ near_history_size = 2
  /\ calls >= 2
  /\ near_in[calls] # near_in[calls - 1]
  /\ binary_near_spectrum = near_in[calls - 1]

\* C7: once last_delay is set, a process call changes it only if
\* worst > best + 2*512 and best is below minimum_probability or below the
\* incremented last_delay_probability; otherwise the old delay is returned.
C7_Sticky ==
  [][(ProcessStep /\ last_delay >= 0) =>
       \/ /\ value_worst_candidate' > value_best_candidate' + 2 * 512
          /\ \/ value_best_candidate' < minimum_probability'
             \/ value_best_candidate' < last_delay_probability + 1
       \/ (last_delay' = last_delay /\ ret' = last_delay)]_vars

\* a call that replaced one reported delay by another
C7_Witness ==
  /\ op = "process"
  /\ entry_delay >= 0
  /\ last_delay >= 0
  /\ last_delay # entry_delay

\* C8: create returns an instance iff max_delay >= 0, lookahead >= 0,
\* max_delay + lookahead > 1 and every allocation succeeds; when it returns
\* none, nothing stays allocated and no field is observable.
C8_CreateContract ==
  op = "create" =>
    /\ (handle = "self") <=>
         (/\ create_args.max_delay >= 0
          /\ create_args.lookahead >= 0
          /\ create_args.max_delay + create_args.lookahead > 1
          /\ \A site \in AllocSites : create_args.ok[site])
    /\ handle = "self" =>
         (/\ heap = AllocSites
          /\ history_size = create_args.max_delay + create_args.lookahead
          /\ near_history_size = create_args.lookahead + 1)
    /\ handle # "self" => (handle = "NULL" /\ heap = {} /\ mean_bit_counts = <<>>)
    /\ ((create_args.max_delay = 0 /\ create_args.lookahead = 0) => handle = "NULL")
    /\ ((create_args.max_delay = 1 /\ create_args.lookahead = 0) => handle = "NULL")

\* create(1, 1) with every allocation succeeding
C8_Witness ==
  /\ op = "create"
  /\ create_args.max_delay = 1 /\ create_args.lookahead = 1
  /\ handle = "self"

\* C9 as stated: destroy never touches released memory, also when called a
\* second time on a destroyed instance.
C9_NeverTouchesReleased == fault = "none"

\* C9 amended: destroy of a null handle changes nothing; destroy of a live
\* instance releases the instance and its five buffers; a second destroy of
\* the same handle reads and frees released memory (undefined behaviour).
C9_DestroyOnce ==
  [][op' = "free" =>
       /\ handle = "NULL" => (heap' = heap /\ fields' = fields /\ fault' = "none")
       /\ (handle = "self" /\ "self" \in heap) => (heap' = {} /\ fault' = "none")
       /\ (handle = "self" /\ "self" \notin heap) => fault' # "none"]_vars

\* a live instance has been destroyed; the caller still holds its address
C9_Witness == op = "free" /\ handle = "self" /\ heap = {} /\ fault = "none"

RECURSIVE PopCount16(_)
PopCount16(x) == IF x = 0 THEN 0 ELSE (x % 2) + PopCount16(x \div 2)

PopCount32(w) == PopCount16(w[1]) + PopCount16(w[2])

\* C10: after init and after every process call, far_bit_counts[i] is the
\* population count of far_history[i] for every i in [0, history_size).
C10_FarBitCounts ==
  Ready => \A i \in Indices : far_bit_counts[i] = PopCount32(binary_far_history[i])

\* non-zero counts have been shifted through the history
C10_Witness ==
  /\ op = "process"
  /\ far_bit_counts[0] = 24
  /\ far_bit_counts[1] = 32

\* C11: after n process calls far_history has history_size entries,
\* far_history[i] is the far-end word of the call made i calls before the
\* latest one for i < n, and the zero word for i >= n.
C11_FarHistory ==
  Ready =>
    /\ DOMAIN binary_far_history = Indices
    /\ calls = Len(far_in)
    /\ \A i \in Indices :
         binary_far_history[i] = (IF i < calls THEN far_in[calls - i] ELSE <<0, 0>>)

\* more calls than slots, on three different far-end words
C11_Witness ==
  /\ op = "process"
  /\ calls > history_size
  /\ far_in[calls] # far_in[calls - 1]
  /\ far_in[calls - 1] # far_in[calls - 2]
  /\ far_in[calls] # far_in[calls - 2]

Min2(a, b) == IF a < b THEN a ELSE b

Max2(a, b) == IF a > b THEN a ELSE b

\* C12: a process call changes minimum_probability only if it was above
\* 17*512 and worst - best > 2816, and then to
\* min(old, max(best + 2*512, 17*512)).
C12_FloorUpdate ==
  [][ProcessStep =>
       minimum_probability' =
         (IF /\ minimum_probability > 17 * 512
             /\ value_worst_candidate' - value_best_candidate' > 2816
          THEN Min2(minimum_probability, Max2(value_best_candidate' + 2 * 512, 17 * 512))
          ELSE minimum_probability)]_vars

\* the floor has just been lowered to best + 2*512, above the lower limit
C12_Witness ==
  /\ op = "process"
  /\ value_worst_candidate - value_best_candidate > 2816
  /\ minimum_probability = value_best_candidate + 2 * 512
  /\ minimum_probability > 17 * 512
  /\ minimum_probability < 32 * 512

\* C13: every process call adds 1 to last_delay_probability and then
\* overwrites it with best_value only if worst > best + 2*512 and best is
\* below the incremented value; after a call with the valley condition,
\* last_delay_probability <= best_value.
C13_LastDelayProbability ==
  /\ [][ProcessStep =>
          last_delay_probability' =
            (IF /\ value_worst_candidate' > value_best_candidate' + 2 * 512
                /\ value_best_candidate' < last_delay_probability + 1
             THEN value_best_candidate'
             ELSE last_delay_probability + 1)]_vars
  /\ []((op = "process" /\ value_worst_candidate > value_best_candidate + 2 * 512)
          => last_delay_probability <= value_best_candidate)

\* a reliable call below minimum_probability that did not re-anchor
C13_Witness ==
  /\ op = "process"
  /\ value_worst_candidate > value_best_candidate + 2 * 512
  /\ value_best_candidate < minimum_probability
  /\ last_delay_probability < value_best_candidate

\* the lowest index at which f attains its minimum over 0..n-1
LowestArgMin(f, n) ==
  CHOOSE i \in 0..(n - 1) :
    /\ \A j \in 0..(n - 1) : f[i] <= f[j]
    /\ \A j \in 0..(i - 1) : f[j] > f[i]

\* C14: after a process call candidate_delay is the lowest index of the
\* minimum of mean_bit_counts, best_value that minimum, worst_value the
\* maximum; a call that changes last_delay sets it to that index.
C14_CandidateSelection ==
  /\ [](op = "process" =>
          /\ candidate_delay = LowestArgMin(mean_bit_counts, history_size)
          /\ value_best_candidate = mean_bit_counts[candidate_delay]
          /\ \A i \in Indices : mean_bit_counts[i] <= value_worst_candidate
          /\ \E i \in Indices : mean_bit_counts[i] = value_worst_candidate)
  /\ [][(ProcessStep /\ last_delay' # last_delay) =>
          last_delay' = LowestArgMin(mean_bit_counts', history_size)]_vars

\* two indices share the minimum, below a larger mean at index 0, and the
\* lower of the two is the candidate
C14_Witness ==
  /\ op = "process"
  /\ candidate_delay > 0
  /\ mean_bit_counts[0] > value_best_candidate
  /\ \E j \in Indices :
       j > candidate_delay /\ mean_bit_counts[j] = mean_bit_counts[candidate_delay]

\* C15: every mean_bit_counts[i] stays in [0, 16384), so the minimum scan of
\* every process call finds a candidate.
C15_MeanRange ==
  Ready =>
    /\ \A i \in Indices : 0 <= mean_bit_counts[i] /\ mean_bit_counts[i] < 16384
    /\ op = "process" => candidate_delay \in Indices

\* means have moved far in both directions
C15_Witness ==
  /\ op = "process"
  /\ \E i \in Indices : mean_bit_counts[i] > 11000
  /\ \E j \in Indices : mean_bit_counts[j] < 8000

\* C19: while every far-end word since init is zero, process returns -2,
\* the means stay at 20*512 and minimum_probability at 32*512, and
\* last_delay_probability is 32*512 plus the number of calls.
C19_NoSignal ==
  (op = "process" /\ \A k \in 1..Len(far_in) : far_in[k] = <<0, 0>>) =>
    /\ ret = 0 - 2
    /\ last_delay = 0 - 2
    /\ \A i \in Indices : mean_bit_counts[i] = 20 * 512
    /\ minimum_probability = 32 * 512
    /\ last_delay_probability = 32 * 512 + calls

\* silence on the far end while the near end carries words
C19_Witness ==
  /\ op = "process"
  /\ calls >= 2
  /\ \A k \in 1..Len(far_in) : far_in[k] = <<0, 0>>
  /\ \E k \in 1..Len(near_in) : near_in[k] # <<0, 0>>
  /\ \E i \in Indices : bit_counts[i] > 0

RECURSIVE TwoTo(_)
TwoTo(n) == IF n = 0 THEN 1 ELSE 2 * TwoTo(n - 1)

Abs(n) == IF n < 0 THEN 0 - n ELSE n

\* C16: the smoothing step moves the mean by
\* sign(new - mean) * floor(|new - mean| / 2^shift): the mirrored difference
\* moves it by the same amount the other way, the result lies between the old
\* mean and new, and the mean is unchanged when |new - mean| < 2^shift.
C16_MeanEstimatorFix ==
  probe.fn = "mean" =>
    LET mean == probe.x
        new == probe.x + probe.z
        unit == TwoTo(probe.y)
        moved == probe.out - mean
        k == Abs(moved)
    IN /\ k * unit <= Abs(probe.z) /\ Abs(probe.z) < (k + 1) * unit
       /\ (probe.z > 0 => moved >= 0) /\ (probe.z < 0 => moved <= 0)
       /\ probe.out2 - mean = 0 - moved
       /\ (IF mean <= new THEN mean <= probe.out /\ probe.out <= new
           ELSE new <= probe.out /\ probe.out <= mean)
       /\ (Abs(probe.z) < unit => probe.out = mean)

\* a negative difference that is no multiple of 2^shift and moves the mean
C16_Witness ==
  /\ probe.fn = "mean"
  /\ probe.z < 0
  /\ probe.y >= 7
  /\ Abs(probe.z) % TwoTo(probe.y) # 0
  /\ probe.out < probe.x

\* C17: for every far_bit_counts value f in [1, 32] the shift is
\* 13 - floor(3*f / 16), lies in [7, 13] and does not grow with f.
C17_Shift ==
  (probe.fn = "shifts" /\ probe.x >= 1 /\ probe.x <= 32) =>
    LET k == 13 - probe.out
    IN /\ 16 * k <= 3 * probe.x /\ 3 * probe.x < 16 * (k + 1)
       /\ 7 <= probe.out /\ probe.out <= 13
       /\ probe.out2 <= probe.out

\* all 32 far-end bits set: the smallest shift
C17_Witness == probe.fn = "shifts" /\ probe.x = 32 /\ probe.out = 7

\* the number of bit positions in which the words u and v differ
Bit16(h, k) == (h \div TwoTo(k)) % 2

Hamming(u, v) ==
  Cardinality({k \in 0..15 : Bit16(u[1], k) # Bit16(v[1], k)})
    + Cardinality({k \in 0..15 : Bit16(u[2], k) # Bit16(v[2], k)})

C20_OneShot ==
  /\ cpu.queries <= 1
  /\ \A k \in 1..Len(cpu.returned) : cpu.returned[k] = cpu.returned[1]

\* calls that do not overlap: the query runs once and later calls return
\* the cached value
C20_Sequential ==
  (\A t \in 1..NumThreads : cpu.pc[t] = "idle") /\ cpu.begun >= 2 /\ cpu.queries = 1

====
